---- MODULE Spec2Model ----
(***************************************************************************)
(* A model of l3pp, the lightweight logging library for C++: the logger    *)
(* hierarchy and its registry (impl/logger.h, logger.h), level resolution, *)
(* the fan-out of an entry to the sinks (sink.h) and the log stream.       *)
(***************************************************************************)
EXTENDS Integers, Sequences, FiniteSets, TLC

(***************************************************************************)
(* LogLevel (l3pp.h): the enumerators in declaration order.                *)
(***************************************************************************)
TRACE == 0
DEBUG == 1
INFO == 2
WARN == 3
ERR == 4
FATAL == 5
OFF == 6
INHERIT == 7
DEFAULT == WARN
ALL == TRACE
LogLevel == TRACE..INHERIT

(***************************************************************************)
(* Bounds of the model.                                                    *)
(***************************************************************************)
\* longest logger name, in characters
MaxNameLen == 3
\* most loggers the registry holds (the root not counted)
MaxLoggers == 3
\* most sink attachments, all loggers together
MaxAttach == 2
\* most basic_log_stream objects constructed
MaxStreams == 2
\* most values streamed into the log streams, all streams together
MaxInserts == 3
\* most calls one thread makes
MaxThreadCalls == 2
\* the pieces the text of one sink write reaches the stream buffer in
WriteChunks == 2
\* most elements of a template formatter
MaxElements == 3
\* the last tick of the clock
MaxClock == 2
\* the most attachments one logger gets where sinks are removed again
MaxSinks == 3
\* the ticks of std::chrono::system_clock in one millisecond
TicksPerMilli == 2

\* the characters logger names are made of
Chars == {"a", "."}

RECURSIVE StringsUpTo(_)
StringsUpTo(n) ==
    IF n = 0 THEN {<<>>}
    ELSE LET shorter == StringsUpTo(n - 1)
         IN  shorter \cup {Append(s, c) : s \in shorter, c \in Chars}

\* the names getLogger is called with; <<>> is the empty string
Names == StringsUpTo(MaxNameLen)

\* the levels setLevel is called with
LevelInputs == {DEBUG, OFF, INHERIT}

\* the sinks that exist (basic_stream_sink::create)
Sinks == {"S1", "S2"}

(***************************************************************************)
(* Objects.  A logger_ptr is the address of a basic_logger object: the     *)
(* pair of the name the object was constructed with and the serial number  *)
(* of the object among those constructed with that name, so that two       *)
(* objects of one name are two addresses.  nullptr is NULL.  The root      *)
(* logger is the function-local static of getRootLogger.                   *)
(***************************************************************************)
NULL == <<<<>>, 0>>
RootId == <<<<>>, 1>>

\* new basic_logger(name, ...): the address of the object allocated
new(hp, name) == <<name, Cardinality({p \in DOMAIN hp : p[1] = name}) + 1>>

VARIABLES
    loggers,    \* detail::GetLoggers(): name -> logger_ptr
    heap,       \* the basic_logger objects ever constructed
    handed,     \* the caller: for each name, the logger_ptrs getLogger returned
    again,      \* the caller: getLogger was called for a name it was called for before
    call,       \* the most recent call, when it was an emission
    written,    \* the sink writes the most recent call made, in order
    streams,    \* the basic_log_stream objects ever constructed
    threads,    \* each thread: where it is in the call it is making
    got,        \* the <<name, logger_ptr>> the finished getLogger calls returned
    os,         \* each sink's stream: the pieces of text written to it
    now,        \* std::chrono::system_clock::now(), in ticks
    formatter,  \* basic_sink::formatter of the sink a formatter is tried on
    formatted,  \* the most recent formatMessage call: the entry and the text
    data,       \* Filter::data of a filter of the legacy variant
    checked,    \* the most recent Filter::check call and what it returned
    legacy,     \* the Logger of the legacy variant: its data and its mutex
    callers,    \* each thread: where it is in a method of the legacy Logger
    startTime   \* the static startTime of detail::GetStartTime()

regVars == <<loggers, heap>>
callerVars == <<handed, again>>
emitVars == <<call, written>>
legacyVars == <<legacy, callers>>
libVars == <<now, formatter, formatted, data, checked, legacyVars, startTime>>

\* log_context(): filename(""), line(0), funcname("")
log_context == [filename |-> "", line |-> 0, funcname |-> ""]

\* basic_log_entry(context, logger, level, msg): timestamp(now())
Entry(l, level, msg) ==
    [logger |-> l, level |-> level, msg |-> msg, timestamp |-> now,
     context |-> log_context]

concVars == <<threads, got, os>>
vars == <<loggers, heap, handed, again, call, written, streams, threads, got, os,
          now, formatter, formatted, data, checked, legacy, callers, startTime>>

\* the threads of the program
Threads == {"T1", "T2"}

\* the entry member of a thread that has constructed no entry
NoEntry == [logger |-> NULL, level |-> ALL, msg |-> "", timestamp |-> 0,
            context |-> log_context]

\* a thread that is in no call.  start, wrote and raced record, of the
\* emission the thread makes: the sinks on the entry's path when logEntry
\* was entered, the sinks sink->log has returned from, and whether another
\* thread has changed the sink list the loop is in
Idle == [pc |-> "idle", calls |-> 0, stack |-> <<>>, entry |-> NoEntry,
         node |-> NULL, idx |-> 0, part |-> 0,
         start |-> <<>>, wrote |-> <<>>, raced |-> FALSE]

\* the most recent call was no emission
NoCall == [op |-> "none"]

\* basic_logger(): the root
RootLogger ==
    [parent |-> NULL, name |-> <<>>, level |-> DEFAULT, sinks |-> <<>>,
     additive |-> TRUE]

\* the root's constructor used for every logger
NewLoggerDefault(name, parent) ==
    [parent |-> parent, name |-> name, level |-> DEFAULT, sinks |-> <<>>,
     additive |-> TRUE]

\* basic_logger(name, parent)
NewLogger(name, parent) ==
    [parent |-> parent, name |-> name, level |-> INHERIT, sinks |-> <<>>,
     additive |-> TRUE]

\* std::basic_string::npos
npos == -1

\* name.find(c): the 0-based index of the first c in name, or npos
find(name, c) ==
    LET hits == {i \in 1..Len(name) : name[i] = c}
    IN  IF hits = {} THEN npos
        ELSE (CHOOSE i \in hits : \A j \in hits : i <= j) - 1

\* name.rfind(c): the 0-based index of the last c in name, or npos
rfind(name, c) ==
    LET hits == {i \in 1..Len(name) : name[i] = c}
    IN  IF hits = {} THEN npos
        ELSE (CHOOSE i \in hits : \A j \in hits : j <= i) - 1

\* name.substr(pos, n)
substr(name, pos, n) == SubSeq(name, pos + 1, pos + n)

\* std::map::emplace(name, ptr): inserts unless the key is present
emplace(reg, name, ptr) ==
    IF name \in DOMAIN reg THEN reg ELSE (name :> ptr) @@ reg

(***************************************************************************)
(* basic_logger::getLogger(name), as a function of the registry and the    *)
(* heap: the returned pointer and the registry and heap it leaves.         *)
(***************************************************************************)
RECURSIVE getLogger(_, _, _)
getLogger(name, reg, hp) ==
    IF Len(name) = 0 THEN [ret |-> RootId, loggers |-> reg, heap |-> hp]
    ELSE IF name \in DOMAIN reg
    THEN [ret |-> reg[name], loggers |-> reg, heap |-> hp]
    ELSE LET n == rfind(name, ".")
             up == IF n = npos
                   THEN [ret |-> RootId, loggers |-> reg, heap |-> hp]
                   ELSE getLogger(substr(name, 0, n), reg, hp)
             newLogger == new(up.heap, name)
         IN  [ret |-> newLogger,
              loggers |-> emplace(up.loggers, name, newLogger),
              heap |-> (newLogger :> NewLogger(name, up.ret)) @@ up.heap]

\* what dereferencing a null parent in getLevel gives
undefined == -1

\* getLevel() that looks at the parent's stored level only
getLevelOneUp(hp, l) ==
    IF hp[l].level = INHERIT
    THEN IF hp[l].parent = NULL THEN undefined ELSE hp[hp[l].parent].level
    ELSE hp[l].level

\* basic_logger::getLevel(): the effective level
RECURSIVE getLevel(_, _)
getLevel(hp, l) ==
    IF hp[l].level = INHERIT
    THEN IF hp[l].parent = NULL THEN undefined ELSE getLevel(hp, hp[l].parent)
    ELSE hp[l].level

\* setLevel that stores whatever level it is given
setLevelStored(lg, level) == level

\* basic_logger::setLevel(level): the stored level afterwards
setLevel(lg, level) ==
    IF level = INHERIT /\ lg.parent = NULL THEN lg.level ELSE level

\* the number of sink attachments of all loggers
RECURSIVE Attached(_, _)
Attached(hp, ls) ==
    IF ls = {} THEN 0
    ELSE LET l == CHOOSE x \in ls : TRUE
         IN  Len(hp[l].sinks) + Attached(hp, ls \ {l})

\* basic_stream_sink::level: set by the constructors, its setter is private
sinkLevel(sink) == ALL

\* basic_stream_sink::log(entry): the writes to the sink's stream
sinkLog(sink, entry) ==
    IF entry.level >= sinkLevel(sink)
    THEN <<[sink |-> sink, entry |-> entry]>>
    ELSE <<>>

\* a loop over the sinks that logs to each sink once, however often it is
\* in the list
RECURSIVE logSinksOnce(_, _)
logSinksOnce(sinks, entry) ==
    IF sinks = <<>> THEN <<>>
    ELSE sinkLog(Head(sinks), entry)
             \o logSinksOnce(SelectSeq(Tail(sinks), LAMBDA s : s # Head(sinks)),
                             entry)

\* for (auto& sink : sinks) sink->log(entry)
RECURSIVE logSinks(_, _)
logSinks(sinks, entry) ==
    IF sinks = <<>> THEN <<>>
    ELSE sinkLog(Head(sinks), entry) \o logSinks(Tail(sinks), entry)

\* logEntry that writes to the sinks of a logger only when the entry's level
\* is at least the logger's effective level
RECURSIVE logEntryLevelled(_, _, _)
logEntryLevelled(hp, l, entry) ==
    (IF entry.level >= getLevel(hp, l) THEN logSinks(hp[l].sinks, entry) ELSE <<>>)
        \o (IF hp[l].additive /\ hp[l].parent # NULL
            THEN logEntryLevelled(hp, hp[l].parent, entry)
            ELSE <<>>)

\* logEntry that goes on to the parent whatever the additive flag is
RECURSIVE logEntryAdditive(_, _, _)
logEntryAdditive(hp, l, entry) ==
    logSinks(hp[l].sinks, entry)
        \o (IF hp[l].parent # NULL
            THEN logEntryAdditive(hp, hp[l].parent, entry)
            ELSE <<>>)

\* logEntry that hands the entry to the parent before the logger's own sinks
RECURSIVE logEntryParentFirst(_, _, _)
logEntryParentFirst(hp, l, entry) ==
    (IF hp[l].additive /\ hp[l].parent # NULL
     THEN logEntryParentFirst(hp, hp[l].parent, entry)
     ELSE <<>>)
        \o logSinks(hp[l].sinks, entry)

\* logEntry that hands the parent an entry of the parent's own
RECURSIVE logEntryRelogged(_, _, _)
logEntryRelogged(hp, l, entry) ==
    logSinks(hp[l].sinks, entry)
        \o (IF hp[l].additive /\ hp[l].parent # NULL
            THEN logEntryRelogged(hp, hp[l].parent,
                                  [entry EXCEPT !.logger = hp[l].parent])
            ELSE <<>>)

\* basic_logger::logEntry(entry): the writes it makes, in order
RECURSIVE logEntry(_, _, _)
logEntry(hp, l, entry) ==
    logSinks(hp[l].sinks, entry)
        \o (IF hp[l].additive /\ hp[l].parent # NULL
            THEN logEntry(hp, hp[l].parent, entry)
            ELSE <<>>)

\* the level check of log(level, msg) with the comparison turned round
discardsAbove(hp, l, level) == level > getLevel(hp, l)

\* log(level, msg): if (level < getLevel()) return;
discards(hp, l, level) == level < getLevel(hp, l)

\* the values streamed into a log stream: a string or an int
Str(text) == [type |-> "string", val |-> text]
Num(n) == [type |-> "int", val |-> n]

\* one decimal digit
Digit(d) ==
    CASE d = 0 -> "0" [] d = 1 -> "1" [] d = 2 -> "2" [] d = 3 -> "3"
      [] d = 4 -> "4" [] d = 5 -> "5" [] d = 6 -> "6" [] d = 7 -> "7"
      [] d = 8 -> "8" [] d = 9 -> "9"

\* an unsigned number in decimal
RECURSIVE Decimal(_)
Decimal(n) == IF n < 10 THEN Digit(n) ELSE Decimal(n \div 10) \o Digit(n % 10)

\* std::basic_ostream << val: the characters val is rendered as
render(v) ==
    IF v.type = "int"
    THEN IF v.val < 0 THEN "-" \o Decimal(0 - v.val) ELSE Decimal(v.val)
    ELSE v.val

\* logger.log(level): basic_log_stream(basic_log_entry(context, this, level))
streamNew(l, level) == [entry |-> Entry(l, level, ""), stream |-> ""]

\* operator<< that replaces what the stream holds
streamAssign(st, v) == [st EXCEPT !.stream = render(v)]

\* operator<<(basic_log_stream const&, T const& val): stream.stream << val
streamInsert(st, v) == [st EXCEPT !.stream = @ \o render(v)]

\* ~basic_log_stream(): entry.msg = stream.str()
streamEntry(st) == [st.entry EXCEPT !.msg = st.stream]

\* ~basic_log_stream(): entry.logger->logEntry(entry)
streamDtor(hp, st) == logEntry(hp, st.entry.logger, streamEntry(st))

\* what a moved-from std::basic_ostringstream may hold: the state is valid
\* but unspecified
MovedFrom(text) == {"", text}

(***************************************************************************)
(* Formatters.  A formatter writes into a std::basic_stringstream of its   *)
(* own: the text so far and the width, fill character and adjustment the   *)
(* next formatted output is padded with.  Every formatted output sets the  *)
(* width back to 0; the fill character and the adjustment stay.            *)
(***************************************************************************)
\* std::basic_stringstream<char_t> stream;
stringstream == [str |-> "", width |-> 0, fill |-> " ", adjustfield |-> "none"]

\* os << std::setw(n), os << std::setfill(c), os << std::left, os << std::right
setw(strm, n) == [strm EXCEPT !.width = n]
setfill(strm, c) == [strm EXCEPT !.fill = c]
std_left(strm) == [strm EXCEPT !.adjustfield = "left"]
std_right(strm) == [strm EXCEPT !.adjustfield = "right"]

\* n times the character c, nothing when n is not positive
RECURSIVE pad(_, _)
pad(c, n) == IF n <= 0 THEN "" ELSE c \o pad(c, n - 1)

\* a formatted output that leaves the width as it is
insertSticky(strm, text) ==
    LET fillers == pad(strm.fill, strm.width - Len(text))
    IN  [strm EXCEPT !.str = @ \o (IF strm.adjustfield = "left"
                                    THEN text \o fillers
                                    ELSE fillers \o text)]

\* os << text: padded to the width on the side the adjustment leaves free,
\* and width(0)
insert(strm, text) ==
    LET fillers == pad(strm.fill, strm.width - Len(text))
    IN  [strm EXCEPT !.str = @ \o (IF strm.adjustfield = "left"
                                    THEN text \o fillers
                                    ELSE fillers \o text),
                     !.width = 0]

\* the level names of the legacy variant, padded to five characters
streamLevelLegacy(strm, level) ==
    insert(strm, CASE level = TRACE -> "TRACE"
                   [] level = DEBUG -> "DEBUG"
                   [] level = INFO -> "INFO "
                   [] level = WARN -> "WARN "
                   [] level = ERR -> "ERROR"
                   [] level = FATAL -> "FATAL"
                   [] level = OFF -> "OFF  "
                   [] OTHER -> "???")

\* operator<<(std::basic_ostream&, LogLevel)
streamLevel(strm, level) ==
    insert(strm, CASE level = TRACE -> "TRACE"
                   [] level = DEBUG -> "DEBUG"
                   [] level = INFO -> "INFO"
                   [] level = WARN -> "WARN"
                   [] level = ERR -> "ERROR"
                   [] level = FATAL -> "FATAL"
                   [] level = OFF -> "OFF"
                   [] OTHER -> "???")

\* basic_formatter::format: stream << context.level << " - " << context.msg << '\n'
format(context) ==
    insert(insert(insert(streamLevel(stringstream, context.level), " - "),
                  context.msg), "\n").str

\* the characters of a name as a std::string
RECURSIVE string(_)
string(name) == IF name = <<>> THEN "" ELSE Head(name) \o string(Tail(name))

\* basic_logger::getName()
getName(hp, l) == string(hp[l].name)

\* basic_field<char_t, field, Width, j, Fill>
basic_field(field, Width, j, Fill) ==
    [kind |-> "field", field |-> field, Width |-> Width, j |-> j, Fill |-> Fill]

\* an element of a template formatter that is no field: any value with a
\* stream operator, here a string literal
literal(text) == [kind |-> "literal", text |-> text]

\* detail::GetStartTime(): the static as it is after the call, initialised
\* from the clock by the first call
GetStartTime(st, clock) ==
    IF st.initialized THEN st ELSE [initialized |-> TRUE, value |-> clock]

\* std::chrono::duration_cast<std::chrono::milliseconds>(runtime).count():
\* the ticks divided by the ticks of a millisecond, truncated towards zero
duration_cast(runtime) ==
    IF runtime >= 0 THEN runtime \div TicksPerMilli
    ELSE 0 - ((0 - runtime) \div TicksPerMilli)

\* basic_field::stream: case Justification::LEFT has no break and falls
\* through to case Justification::RIGHT
fieldStream(hp, strm, t, context) ==
    LET filled == setfill(setw(strm, t.Width), t.Fill)
        adjusted == IF t.j = "LEFT" THEN std_right(std_left(filled))
                    ELSE std_right(filled)
    IN  CASE t.field = "LoggerName" -> insert(adjusted, getName(hp, context.logger))
          [] t.field = "Message" -> insert(adjusted, context.msg)
          [] t.field = "LogLevel" -> streamLevel(adjusted, context.level)
          [] t.field = "WallTime" ->
                 LET runtime == context.timestamp
                                    - GetStartTime(startTime, now).value
                 IN  insert(adjusted, render(Num(duration_cast(runtime))))

\* basic_template_formatter::formatElement: t.stream(stream, context) for a
\* field, stream << t for anything else
formatElement(hp, t, strm, context) ==
    IF t.kind = "field" THEN fieldStream(hp, strm, t, context)
    ELSE insert(strm, t.text)

\* basic_template_formatter::formatTuple<N>
RECURSIVE formatTuple(_, _, _, _, _)
formatTuple(hp, formatters, N, context, strm) ==
    IF N > Len(formatters) THEN strm
    ELSE formatTuple(hp, formatters, N + 1, context,
                     formatElement(hp, formatters[N], strm, context))

\* basic_template_formatter::format
templateFormat(hp, formatters, context) ==
    formatTuple(hp, formatters, 1, context, stringstream).str

\* std::make_shared<basic_formatter<char_t>>() and makeTemplateFormatter(...)
basic_formatter == [class |-> "basic_formatter"]
makeTemplateFormatter(formatters) ==
    [class |-> "basic_template_formatter", formatters |-> formatters]

\* basic_sink::formatMessage: (*formatter)(context), format being virtual
formatMessage(hp, fmt, context) ==
    IF fmt.class = "basic_formatter" THEN format(context)
    ELSE templateFormat(hp, fmt.formatters, context)

(***************************************************************************)
(* The filter of the legacy variant: rules from channels to least levels.  *)
(* Channels are names; the levels are those of the legacy LogLevel.        *)
(***************************************************************************)
LVL_DEBUG == 2
LVL_WARN == 4
LVL_OFF == 7
LVL_DEFAULT == LVL_WARN

\* Filter::operator()(channel, level): data[channel] = level
rule(dt, channel, level) ==
    [c \in DOMAIN dt \cup {channel} |-> IF c = channel THEN level ELSE dt[c]]

\* Filter::Filter(level): (*this)("", level)
Filter(level) == rule(<<>>, <<>>, level)

\* Filter::check, the loop: the channel it leaves in curChan
RECURSIVE curChan(_, _)
curChan(dt, channel) ==
    IF Len(channel) > 0 /\ channel \notin DOMAIN dt
    THEN LET n == rfind(channel, ".")
         IN  curChan(dt, IF n = npos THEN <<>> ELSE substr(channel, 0, n))
    ELSE channel

\* a check that looks the channel up and then the rule for "" only
checkRoot(dt, channel, level) ==
    LET it == IF channel \in DOMAIN dt THEN channel ELSE <<>>
    IN  IF it \in DOMAIN dt THEN level >= dt[it] ELSE "abort"

\* Filter::check(channel, level): assert(it != data.end()), then
\* level >= it->second
check(dt, channel, level) ==
    LET it == curChan(dt, channel)
    IN  IF it \in DOMAIN dt THEN level >= dt[it] ELSE "abort"

\* Logger::Logger(): no sinks installed, the mutex free
Logger == [data |-> <<>>, mutex |-> "free"]

\* a thread that is in no method of the legacy Logger
Outside ==
    [pc |-> "outside", calls |-> 0, id |-> "", arg |-> "", it |-> 0,
     t |-> <<>>]

\* the legacy Logger as constructed, no thread in it
InitLegacy ==
    /\ legacy = Logger
    /\ callers = [t \in Threads |-> Outside]

\* the static of GetStartTime before its initialisation ran
NotStarted == [initialized |-> FALSE, value |-> 0]

\* the state of what the library holds besides the loggers: the clock at
\* its start, a sink's default formatter, a legacy filter as constructed
InitLib ==
    /\ now = 0
    /\ formatter = basic_formatter
    /\ formatted = [op |-> "none"]
    /\ data = Filter(LVL_DEFAULT)
    /\ checked = [op |-> "none"]
    /\ InitLegacy
    /\ startTime = NotStarted

Init ==
    /\ loggers = <<>>
    /\ heap = (RootId :> RootLogger)
    /\ handed = [n \in Names |-> {}]
    /\ again = FALSE
    /\ call = NoCall
    /\ written = <<>>
    /\ streams = <<>>
    /\ threads = [t \in Threads |-> Idle]
    /\ got = {}
    /\ os = [sink \in Sinks |-> <<>>]
    /\ InitLib

\* a call that is no emission and writes to no sink
Quiet == call' = NoCall /\ written' = <<>>

\* getLogger(name), the returned pointer dropped
GetLogger(name) ==
    LET r == getLogger(name, loggers, heap)
    IN  /\ Cardinality(DOMAIN r.heap) <= MaxLoggers + 1
        /\ loggers' = r.loggers
        /\ heap' = r.heap
        /\ Quiet
        /\ UNCHANGED <<callerVars, streams, concVars, libVars>>

\* logger_ptr p = getLogger(name), the caller keeping p
GetLoggerKeep(name) ==
    LET r == getLogger(name, loggers, heap)
    IN  /\ Cardinality(DOMAIN r.heap) <= MaxLoggers + 1
        /\ loggers' = r.loggers
        /\ heap' = r.heap
        /\ handed' = [handed EXCEPT ![name] = @ \cup {r.ret}]
        /\ again' = (again \/ handed[name] # {})
        /\ Quiet
        /\ UNCHANGED <<streams, concVars, libVars>>

\* l->setLevel(level)
SetLevel(l, level) ==
    /\ heap' = [heap EXCEPT ![l].level = setLevel(heap[l], level)]
    /\ Quiet
    /\ UNCHANGED <<loggers, callerVars, streams, concVars, libVars>>

\* l->setAdditive(additive)
SetAdditive(l, additive) ==
    /\ heap' = [heap EXCEPT ![l].additive = additive]
    /\ Quiet
    /\ UNCHANGED <<loggers, callerVars, streams, concVars, libVars>>

\* l->addSink(sink)
AddSink(l, sink) ==
    /\ Attached(heap, DOMAIN heap) < MaxAttach
    /\ heap' = [heap EXCEPT ![l].sinks = Append(@, sink)]
    /\ Quiet
    /\ UNCHANGED <<loggers, callerVars, streams, concVars, libVars>>

\* deinitialize() with the two statements of its body not commented out
DeinitializeClearing ==
    /\ loggers' = <<>>
    /\ heap' = [heap EXCEPT ![RootId].sinks = <<>>]
    /\ Quiet
    /\ UNCHANGED <<callerVars, streams, concVars, libVars>>

\* deinitialize(): its body is commented out
Deinitialize ==
    /\ Quiet
    /\ UNCHANGED <<regVars, callerVars, streams, concVars, libVars>>

\* l->log(level, msg)
Log(l, level, msg) ==
    /\ IF discards(heap, l, level)
       THEN /\ written' = <<>>
            /\ call' = [op |-> "log", logger |-> l, level |-> level,
                        msg |-> msg, entries |-> 0]
       ELSE /\ written' = logEntry(heap, l, Entry(l, level, msg))
            /\ call' = [op |-> "log", logger |-> l, level |-> level,
                        msg |-> msg, entries |-> 1]
    /\ UNCHANGED <<regVars, callerVars, streams, concVars, libVars>>

\* l->log(level) << v1 << ... << vn; the temporary is destroyed at the end
\* of the statement
RECURSIVE streamInsertAll(_, _)
streamInsertAll(st, vals) ==
    IF vals = <<>> THEN st
    ELSE streamInsertAll(streamInsert(st, Head(vals)), Tail(vals))

LogStreamed(l, level, vals) ==
    LET st == streamInsertAll(streamNew(l, level), vals)
    IN  /\ written' = streamDtor(heap, st)
        /\ call' = [op |-> "stream", logger |-> l, level |-> level,
                    msg |-> streamEntry(st).msg, entries |-> 1]
        /\ UNCHANGED <<regVars, callerVars, streams, concVars, libVars>>

\* the number of values streamed into all log streams
RECURSIVE Inserted(_, _)
Inserted(sts, ids) ==
    IF ids = {} THEN 0
    ELSE LET s == CHOOSE x \in ids : TRUE
         IN  sts[s].inserts + Inserted(sts, ids \ {s})

\* the log streams that are constructed and not destroyed
Live == {s \in DOMAIN streams : streams[s].live}

\* auto s = l->log(level);  the object is constructed in place.  origin,
\* vals, inserts, movedFrom, movedTo and emitted record what happened to the
\* object, created what log was called with and when.
StreamCreate(l, level) ==
    LET s == Len(streams) + 1
    IN  /\ Len(streams) < MaxStreams
        /\ streams' = Append(streams,
               [obj |-> streamNew(l, level), live |-> TRUE, origin |-> s,
                vals |-> <<>>, inserts |-> 0, movedFrom |-> FALSE,
                movedTo |-> FALSE, emitted |-> 0,
                created |-> [logger |-> l, level |-> level, timestamp |-> now]])
        /\ call' = [op |-> "create", stream |-> s, entries |-> 1]
        /\ written' = <<>>
        /\ UNCHANGED <<regVars, callerVars, concVars, libVars>>

\* s << v
StreamInsert(s, v) ==
    /\ Inserted(streams, DOMAIN streams) < MaxInserts
    /\ streams' = [streams EXCEPT ![s].obj = streamInsert(@, v),
                                  ![s].vals = Append(@, v),
                                  ![s].inserts = @ + 1]
    /\ Quiet
    /\ UNCHANGED <<regVars, callerVars, concVars, libVars>>

\* basic_log_stream t(std::move(s)): the defaulted move constructor moves
\* the entry (the logger pointer and the level are copied) and the stream
StreamMove(s, left) ==
    LET t == Len(streams) + 1
    IN  /\ Len(streams) < MaxStreams
        /\ streams' = Append(
               [streams EXCEPT ![s].obj.stream = left, ![s].movedFrom = TRUE],
               [obj |-> streams[s].obj, live |-> TRUE,
                origin |-> streams[s].origin, vals |-> streams[s].vals,
                inserts |-> 0, movedFrom |-> FALSE, movedTo |-> TRUE,
                emitted |-> 0, created |-> streams[s].created])
        /\ Quiet
        /\ UNCHANGED <<regVars, callerVars, concVars, libVars>>

\* t = std::move(s): the defaulted move assignment
StreamMoveAssign(t, s, left) ==
    /\ streams' = [streams EXCEPT ![s].obj.stream = left,
                                  ![s].movedFrom = TRUE,
                                  ![t].obj = streams[s].obj,
                                  ![t].origin = streams[s].origin,
                                  ![t].vals = streams[s].vals,
                                  ![t].created = streams[s].created,
                                  ![t].movedTo = TRUE]
    /\ Quiet
    /\ UNCHANGED <<regVars, callerVars, concVars, libVars>>

\* s goes out of scope: ~basic_log_stream()
StreamDestroy(s) ==
    /\ streams' = [streams EXCEPT ![s].obj.entry = streamEntry(streams[s].obj),
                                  ![s].live = FALSE,
                                  ![s].emitted = @ + 1]
    /\ written' = streamDtor(heap, streams[s].obj)
    /\ call' = [op |-> "destroy", stream |-> s, entries |-> 0]
    /\ UNCHANGED <<regVars, callerVars, concVars, libVars>>

(***************************************************************************)
(* Level resolution: any sequence of getLogger and setLevel calls.         *)
(***************************************************************************)
NextLevel ==
    \/ \E name \in Names : GetLogger(name)
    \/ \E l \in DOMAIN heap, level \in LevelInputs : SetLevel(l, level)

SpecLevel == Init /\ [][NextLevel]_vars

(***************************************************************************)
(* The registry: getLogger for every name, the caller keeping the          *)
(* pointers, with the logger "a" configured in between.                    *)
(***************************************************************************)
Configured == {loggers[n] : n \in {<<"a">>} \cap DOMAIN loggers}

NextRegistry ==
    \/ \E name \in Names : GetLoggerKeep(name)
    \/ \E l \in Configured, level \in {OFF, INHERIT} : SetLevel(l, level)
    \/ \E l \in Configured, additive \in BOOLEAN : SetAdditive(l, additive)
    \/ \E l \in Configured : AddSink(l, "S1")
    \/ Deinitialize

SpecRegistry == Init /\ [][NextRegistry]_vars

(***************************************************************************)
(* Emission: a chain of two loggers below the root, configured and logged  *)
(* to in any order.                                                        *)
(***************************************************************************)
EmitNames == {<<"a">>, <<"a", ".", "a">>}
EmitLevels == {TRACE, INFO, FATAL}

NextEmit ==
    \/ \E name \in EmitNames : GetLogger(name)
    \/ \E l \in DOMAIN heap, level \in LevelInputs : SetLevel(l, level)
    \/ \E l \in DOMAIN heap \ {RootId}, additive \in BOOLEAN : SetAdditive(l, additive)
    \/ \E l \in DOMAIN heap, sink \in Sinks : AddSink(l, sink)
    \/ \E l \in DOMAIN heap, level \in EmitLevels : Log(l, level, "m")
    \/ \E l \in DOMAIN heap, level \in EmitLevels :
            LogStreamed(l, level, <<Str("m")>>)

SpecEmit == Init /\ [][NextEmit]_vars

(***************************************************************************)
(* Log streams: created on the root, to which a sink was attached,         *)
(* streamed into, moved and destroyed in any order.  A stream that was     *)
(* moved from is only destroyed.                                           *)
(***************************************************************************)
\* after getRootLogger()->addSink(S1)
InitStream ==
    /\ loggers = <<>>
    /\ heap = (RootId :> [RootLogger EXCEPT !.sinks = <<"S1">>])
    /\ handed = [n \in Names |-> {}]
    /\ again = FALSE
    /\ call = NoCall
    /\ written = <<>>
    /\ streams = <<>>
    /\ threads = [t \in Threads |-> Idle]
    /\ got = {}
    /\ os = [sink \in Sinks |-> <<>>]
    /\ InitLib

StreamValues == {Str("x="), Num(5), Str(" done")}

\* the live log streams that were not moved from
Usable == {s \in Live : ~streams[s].movedFrom}

NextStream ==
    \/ \E l \in DOMAIN heap : StreamCreate(l, INFO)
    \/ \E s \in Usable, v \in StreamValues : StreamInsert(s, v)
    \/ \E s \in Usable : \E left \in MovedFrom(streams[s].obj.stream) :
            StreamMove(s, left)
    \/ \E s \in Usable : \E t \in Usable \ {s} :
            \E left \in MovedFrom(streams[s].obj.stream) :
                StreamMoveAssign(t, s, left)
    \/ \E s \in Live : StreamDestroy(s)

SpecStream == InitStream /\ [][NextStream]_vars

(***************************************************************************)
(* Threads.  No function of the library takes a lock: a thread's call is   *)
(* the sequence of its accesses to the registry, to the loggers and to the *)
(* sinks' streams, and the accesses of two threads interleave in any       *)
(* order.                                                                  *)
(***************************************************************************)
seqVars == <<handed, again, call, written, streams, libVars>>

\* the frame of the getLogger call the thread t is in
Top(t) == threads[t].stack[Len(threads[t].stack)]

\* getLogger(name) is entered
Frame(name) == [name |-> name, at |-> "find", parent |-> NULL, newLogger |-> NULL]

\* return p from the innermost getLogger call of a thread: to the caller's
\* parent = getLogger(...), or to the program
Return(th, p) ==
    LET n == Len(th.stack)
    IN  IF n = 1
        THEN [th EXCEPT !.pc = "idle", !.stack = <<>>]
        ELSE [th EXCEPT !.stack = [SubSeq(th.stack, 1, n - 1)
                                      EXCEPT ![n - 1].parent = p,
                                             ![n - 1].at = "new"]]

\* what the program gets when the outermost call returns p
Got(th, p) == IF Len(th.stack) = 1 THEN {<<th.stack[1].name, p>>} ELSE {}

\* the thread t calls getLogger(name)
ThreadGetLogger(t, name) ==
    /\ threads[t].pc = "idle"
    /\ threads[t].calls < MaxThreadCalls
    /\ threads' = [threads EXCEPT ![t].pc = "getLogger",
                                  ![t].calls = @ + 1,
                                  ![t].stack = <<Frame(name)>>]
    /\ UNCHANGED <<regVars, seqVars, got, os>>

\* if (name.size() == 0) return getRootLogger();
\* it = loggers.find(name); if (it != loggers.end()) return it->second;
\* else n = name.rfind('.'), and parent = getRootLogger() or the call of
\* getLogger(name.substr(0, n))
ThreadFind(t) ==
    /\ threads[t].pc = "getLogger"
    /\ Top(t).at = "find"
    /\ LET th == threads[t]
           top == Len(th.stack)
           name == Top(t).name
           n == rfind(name, ".")
       IN  IF Len(name) = 0
           THEN /\ threads' = [threads EXCEPT ![t] = Return(th, RootId)]
                /\ got' = got \cup Got(th, RootId)
           ELSE IF name \in DOMAIN loggers
           THEN /\ threads' = [threads EXCEPT ![t] = Return(th, loggers[name])]
                /\ got' = got \cup Got(th, loggers[name])
           ELSE IF n = npos
           THEN /\ threads' = [threads EXCEPT ![t].stack[top].parent = RootId,
                                              ![t].stack[top].at = "new"]
                /\ got' = got
           ELSE /\ threads' = [threads EXCEPT
                       ![t].stack = Append([@ EXCEPT ![top].at = "parent"],
                                           Frame(substr(name, 0, n)))]
                /\ got' = got
    /\ UNCHANGED <<regVars, seqVars, os>>

\* auto newLogger = logger_ptr(new basic_logger<char_t>(name, parent));
ThreadNew(t) ==
    /\ threads[t].pc = "getLogger"
    /\ Top(t).at = "new"
    /\ LET top == Len(threads[t].stack)
           newLogger == new(heap, Top(t).name)
       IN  /\ heap' = (newLogger :> NewLogger(Top(t).name, Top(t).parent)) @@ heap
           /\ threads' = [threads EXCEPT ![t].stack[top].newLogger = newLogger,
                                         ![t].stack[top].at = "emplace"]
    /\ UNCHANGED <<loggers, seqVars, got, os>>

\* loggers.emplace(name, newLogger); return newLogger;
ThreadEmplace(t) ==
    /\ threads[t].pc = "getLogger"
    /\ Top(t).at = "emplace"
    /\ loggers' = emplace(loggers, Top(t).name, Top(t).newLogger)
    /\ threads' = [threads EXCEPT ![t] = Return(threads[t], Top(t).newLogger)]
    /\ got' = got \cup Got(threads[t], Top(t).newLogger)
    /\ UNCHANGED <<heap, seqVars, os>>

\* the sinks of a sequence of sink writes
SinksOf(writes) == [i \in DOMAIN writes |-> writes[i].sink]

\* the thread t calls l->log(level, msg), its own name the message:
\* if (level < getLevel()) return; and the entry is constructed
ThreadLog(t, l, level) ==
    /\ threads[t].pc = "idle"
    /\ threads[t].calls < MaxThreadCalls
    /\ threads' = [threads EXCEPT
           ![t] = IF discards(heap, l, level)
                  THEN [@ EXCEPT !.calls = @ + 1]
                  ELSE [@ EXCEPT !.calls = @ + 1, !.pc = "logEntry",
                                 !.entry = Entry(l, level, t),
                                 !.node = l, !.idx = 1, !.part = 1,
                                 !.start = SinksOf(logEntry(heap, l,
                                                      Entry(l, level, t))),
                                 !.wrote = <<>>, !.raced = FALSE]]
    /\ UNCHANGED <<regVars, seqVars, got, os>>

\* logEntry: the next step of for (auto& sink : sinks) sink->log(entry),
\* one piece of *os << formatMessage(entry) << std::flush, or, the sinks
\* done, if (additive && parent) parent->logEntry(entry)
ThreadLogEntry(t) ==
    /\ threads[t].pc = "logEntry"
    /\ LET th == threads[t]
           lg == heap[th.node]
       IN  IF th.idx <= Len(lg.sinks)
           THEN LET sink == lg.sinks[th.idx]
                IN  IF th.entry.level >= sinkLevel(sink)
                    THEN /\ os' = [os EXCEPT ![sink] =
                                Append(@, [entry |-> th.entry, part |-> th.part])]
                         /\ threads' = [threads EXCEPT
                                ![t] = IF th.part = WriteChunks
                                       THEN [@ EXCEPT !.idx = @ + 1, !.part = 1,
                                                      !.wrote = Append(@, sink)]
                                       ELSE [@ EXCEPT !.part = @ + 1]]
                    ELSE /\ os' = os
                         /\ threads' = [threads EXCEPT ![t].idx = @ + 1]
           ELSE /\ os' = os
                /\ threads' = [threads EXCEPT
                       ![t] = IF lg.additive /\ lg.parent # NULL
                              THEN [@ EXCEPT !.node = lg.parent, !.idx = 1,
                                             !.raced = FALSE]
                              ELSE [@ EXCEPT !.pc = "idle", !.raced = FALSE]]
    /\ UNCHANGED <<regVars, seqVars, got>>

\* after getRootLogger()->addSink(S1)
InitThreads ==
    /\ loggers = <<>>
    /\ heap = (RootId :> [RootLogger EXCEPT !.sinks = <<"S1">>])
    /\ handed = [n \in Names |-> {}]
    /\ again = FALSE
    /\ call = NoCall
    /\ written = <<>>
    /\ streams = <<>>
    /\ threads = [t \in Threads |-> Idle]
    /\ got = {}
    /\ os = [sink \in Sinks |-> <<>>]
    /\ InitLib

NextThreads ==
    \/ \E t \in Threads, name \in EmitNames : ThreadGetLogger(t, name)
    \/ \E t \in Threads : ThreadFind(t)
    \/ \E t \in Threads : ThreadNew(t)
    \/ \E t \in Threads : ThreadEmplace(t)
    \/ \E t \in Threads, l \in DOMAIN heap : ThreadLog(t, l, FATAL)
    \/ \E t \in Threads : ThreadLogEntry(t)

SpecThreads == InitThreads /\ [][NextThreads]_vars

(***************************************************************************)
(* Formatting: a sink that was given any formatter formats any entry.      *)
(***************************************************************************)
\* the logger getLogger("ab") returns
LoggerAb == <<<<"a", "b">>, 1>>

\* the layouts of the fields: Width, j and Fill
FieldLayouts ==
    {[Width |-> 0, j |-> "RIGHT", Fill |-> " "],
     [Width |-> 6, j |-> "LEFT", Fill |-> "."],
     [Width |-> 6, j |-> "RIGHT", Fill |-> " "]}

\* the elements template formatters are made of
Elements ==
    {basic_field(f, y.Width, y.j, y.Fill) :
         f \in {"LoggerName", "Message"}, y \in FieldLayouts}
    \cup {basic_field("LogLevel", 0, "RIGHT", " ")}
    \cup {literal(" | "), literal("\n")}

RECURSIVE TuplesUpTo(_)
TuplesUpTo(n) ==
    IF n = 0 THEN {<<>>}
    ELSE LET shorter == TuplesUpTo(n - 1)
         IN  shorter \cup {Append(ts, t) : ts \in shorter, t \in Elements}

\* the formatters a sink is constructed with
Formatters ==
    {basic_formatter}
    \cup {makeTemplateFormatter(ts) : ts \in TuplesUpTo(MaxElements)}

\* the entries that are formatted
Contexts ==
    {[logger |-> RootId, level |-> level, msg |-> "boom", timestamp |-> 0,
      context |-> log_context] : level \in LogLevel}
    \cup {[logger |-> LoggerAb, level |-> INFO, msg |-> "hi", timestamp |-> 0,
           context |-> log_context]}

\* after getLogger("ab") and the construction of a sink with a formatter
InitFormat ==
    /\ loggers = (<<"a", "b">> :> LoggerAb)
    /\ heap = (RootId :> RootLogger)
                  @@ (LoggerAb :> NewLogger(<<"a", "b">>, RootId))
    /\ handed = [n \in Names |-> {}]
    /\ again = FALSE
    /\ call = NoCall
    /\ written = <<>>
    /\ streams = <<>>
    /\ threads = [t \in Threads |-> Idle]
    /\ got = {}
    /\ os = [sink \in Sinks |-> <<>>]
    /\ now = 0
    /\ formatter \in Formatters
    /\ formatted = [op |-> "none"]
    /\ data = Filter(LVL_DEFAULT)
    /\ checked = [op |-> "none"]
    /\ InitLegacy
    /\ startTime = NotStarted

\* sink->formatMessage(context)
FormatMessage(context) ==
    /\ formatted' = [op |-> "formatMessage", context |-> context,
                     text |-> formatMessage(heap, formatter, context)]
    /\ UNCHANGED <<regVars, callerVars, emitVars, streams, concVars,
                   now, formatter, data, checked, legacyVars, startTime>>

NextFormat == \E context \in Contexts : FormatMessage(context)

SpecFormat == InitFormat /\ [][NextFormat]_vars

(***************************************************************************)
(* setLevel with every value of LogLevel on the root logger, on "a" and on *)
(* "a.a".                                                                   *)
(***************************************************************************)
NextInherit ==
    \/ \E name \in EmitNames : GetLogger(name)
    \/ \E l \in DOMAIN heap, level \in LogLevel : SetLevel(l, level)

SpecInherit == Init /\ [][NextInherit]_vars

(***************************************************************************)
(* Emission at any level: every value of LogLevel as the level of the      *)
(* logger and as the level of the message, the root logger with one sink.  *)
(***************************************************************************)
NextAnyLevel ==
    \/ GetLogger(<<"a">>)
    \/ \E l \in DOMAIN heap, level \in LevelInputs : SetLevel(l, level)
    \/ \E l \in DOMAIN heap, level \in LogLevel : Log(l, level, "m")
    \/ \E l \in DOMAIN heap, level \in LogLevel :
           LogStreamed(l, level, <<Str("m")>>)

SpecAnyLevel == InitStream /\ [][NextAnyLevel]_vars

(***************************************************************************)
(* Threads that configure loggers while threads emit.  addSink, removeSink, *)
(* setAdditive and setLevel write the members logEntry and log read, with  *)
(* no lock.  A std::vector that is changed while a range-for loop is in it *)
(* leaves the loop with invalidated iterators: the loop goes on in the     *)
(* vector as it is now, or does anything else.                             *)
(***************************************************************************)
\* the logger getLogger("a") returns
LoggerA == <<<<"a">>, 1>>

\* removeSink as the erase-remove idiom: every attachment of the sink goes
removeSinkAll(sinks, sink) == SelectSeq(sinks, LAMBDA s : s # sink)

\* sinks.erase(std::find(sinks.begin(), sinks.end(), sink)), if found
RECURSIVE removeSink(_, _)
removeSink(sinks, sink) ==
    IF sinks = <<>> THEN <<>>
    ELSE IF Head(sinks) = sink THEN Tail(sinks)
    ELSE <<Head(sinks)>> \o removeSink(Tail(sinks), sink)

\* the threads as they are after the sink list of l was changed by t
Raced(t, l) ==
    [u \in Threads |->
        IF u # t /\ threads[u].pc = "logEntry" /\ threads[u].node = l
        THEN [threads[u] EXCEPT !.raced = TRUE]
        ELSE IF u = t THEN [threads[u] EXCEPT !.calls = @ + 1]
        ELSE threads[u]]

\* the thread t calls l->addSink(sink): sinks.push_back(sink)
ThreadAddSink(t, l, sink) ==
    /\ threads[t].pc = "idle"
    /\ threads[t].calls < MaxThreadCalls
    /\ Attached(heap, DOMAIN heap) < MaxAttach
    /\ heap' = [heap EXCEPT ![l].sinks = Append(@, sink)]
    /\ threads' = Raced(t, l)
    /\ UNCHANGED <<loggers, seqVars, got, os>>

\* the thread t calls l->removeSink(sink)
ThreadRemoveSink(t, l, sink) ==
    /\ threads[t].pc = "idle"
    /\ threads[t].calls < MaxThreadCalls
    /\ heap' = [heap EXCEPT ![l].sinks = removeSink(@, sink)]
    /\ threads' = IF heap'[l].sinks # heap[l].sinks THEN Raced(t, l)
                  ELSE [threads EXCEPT ![t].calls = @ + 1]
    /\ UNCHANGED <<loggers, seqVars, got, os>>

\* the thread t calls l->setAdditive(additive)
ThreadSetAdditive(t, l, additive) ==
    /\ threads[t].pc = "idle"
    /\ threads[t].calls < MaxThreadCalls
    /\ heap' = [heap EXCEPT ![l].additive = additive]
    /\ threads' = [threads EXCEPT ![t].calls = @ + 1]
    /\ UNCHANGED <<loggers, seqVars, got, os>>

\* the thread t calls l->setLevel(level)
ThreadSetLevel(t, l, level) ==
    /\ threads[t].pc = "idle"
    /\ threads[t].calls < MaxThreadCalls
    /\ heap' = [heap EXCEPT ![l].level = setLevel(heap[l], level)]
    /\ threads' = [threads EXCEPT ![t].calls = @ + 1]
    /\ UNCHANGED <<loggers, seqVars, got, os>>

\* the loop of logEntry uses an iterator that a push_back or an erase of
\* another thread has invalidated: the behaviour is undefined, and what the
\* thread does from here on is not followed
ThreadLogEntryRaced(t) ==
    /\ threads[t].pc = "logEntry"
    /\ threads[t].raced
    /\ threads' = [threads EXCEPT ![t].pc = "undefined"]
    /\ UNCHANGED <<regVars, seqVars, got, os>>

\* after getRootLogger()->addSink(S1) and getLogger("a")
InitMutate ==
    /\ loggers = (<<"a">> :> LoggerA)
    /\ heap = (RootId :> [RootLogger EXCEPT !.sinks = <<"S1">>])
                  @@ (LoggerA :> NewLogger(<<"a">>, RootId))
    /\ handed = [n \in Names |-> {}]
    /\ again = FALSE
    /\ call = NoCall
    /\ written = <<>>
    /\ streams = <<>>
    /\ threads = [t \in Threads |-> Idle]
    /\ got = {}
    /\ os = [sink \in Sinks |-> <<>>]
    /\ InitLib

NextMutate ==
    \/ \E t \in Threads, l \in DOMAIN heap : ThreadLog(t, l, FATAL)
    \/ \E t \in Threads : ThreadLogEntry(t)
    \/ \E t \in Threads : ThreadLogEntryRaced(t)
    \/ \E t \in Threads, l \in DOMAIN heap, sink \in Sinks :
           ThreadAddSink(t, l, sink)
    \/ \E t \in Threads, l \in DOMAIN heap, sink \in Sinks :
           ThreadRemoveSink(t, l, sink)
    \/ \E t \in Threads, l \in DOMAIN heap, additive \in BOOLEAN :
           ThreadSetAdditive(t, l, additive)
    \/ \E t \in Threads, l \in DOMAIN heap : ThreadSetLevel(t, l, OFF)

SpecMutate == InitMutate /\ [][NextMutate]_vars

(***************************************************************************)
(* The order of the sink writes: sinks are added to the loggers of a       *)
(* hierarchy in any order, and entries no logger discards are logged.      *)
(***************************************************************************)
NextOrder ==
    \/ \E name \in EmitNames : GetLogger(name)
    \/ \E l \in DOMAIN heap \ {RootId}, additive \in BOOLEAN :
           SetAdditive(l, additive)
    \/ \E l \in DOMAIN heap, sink \in Sinks : AddSink(l, sink)
    \/ \E l \in DOMAIN heap : Log(l, FATAL, "m")

SpecOrder == Init /\ [][NextOrder]_vars

(***************************************************************************)
(* The legacy filter: any sequence of rules set and checks made.           *)
(***************************************************************************)
\* the levels of rules and of the messages checked
FilterLevels == {LVL_DEBUG, LVL_WARN, LVL_OFF}

\* the channels rules are set for
RuleChannels == {<<>>, <<"a">>, <<"a", ".", "a">>}

\* filter(channel, level)
FilterRule(channel, level) ==
    /\ data' = rule(data, channel, level)
    /\ checked' = [op |-> "none"]
    /\ UNCHANGED <<regVars, callerVars, emitVars, streams, concVars,
                   now, formatter, formatted, legacyVars, startTime>>

\* filter.check(channel, level)
FilterCheck(channel, level) ==
    /\ checked' = [op |-> "check", channel |-> channel, level |-> level,
                   result |-> check(data, channel, level)]
    /\ UNCHANGED <<regVars, callerVars, emitVars, streams, concVars,
                   now, formatter, formatted, data, legacyVars, startTime>>

\* Filter filter(level)
InitFilter ==
    /\ loggers = <<>>
    /\ heap = (RootId :> RootLogger)
    /\ handed = [n \in Names |-> {}]
    /\ again = FALSE
    /\ call = NoCall
    /\ written = <<>>
    /\ streams = <<>>
    /\ threads = [t \in Threads |-> Idle]
    /\ got = {}
    /\ os = [sink \in Sinks |-> <<>>]
    /\ now = 0
    /\ formatter = basic_formatter
    /\ formatted = [op |-> "none"]
    /\ data \in {Filter(level) : level \in FilterLevels}
    /\ checked = [op |-> "none"]
    /\ InitLegacy
    /\ startTime = NotStarted

NextFilter ==
    \/ \E channel \in RuleChannels, level \in FilterLevels :
           FilterRule(channel, level)
    \/ \E channel \in Names, level \in FilterLevels : FilterCheck(channel, level)

SpecFilter == InitFilter /\ [][NextFilter]_vars

(***************************************************************************)
(* Entries in time: the clock ticks between the calls, entries are         *)
(* constructed by log(level, msg) and by log(level), streams are streamed  *)
(* into and destroyed, and the logger "a" and the root have a sink each.   *)
(***************************************************************************)
\* std::chrono::system_clock::now() has advanced
Tick ==
    /\ now < MaxClock
    /\ now' = now + 1
    /\ Quiet
    /\ UNCHANGED <<regVars, callerVars, streams, concVars,
                   formatter, formatted, data, checked, legacyVars, startTime>>

\* after getRootLogger()->addSink(S1) and getLogger("a")->addSink(S2)
InitEntry ==
    /\ loggers = (<<"a">> :> LoggerA)
    /\ heap = (RootId :> [RootLogger EXCEPT !.sinks = <<"S1">>])
                  @@ (LoggerA :> [NewLogger(<<"a">>, RootId) EXCEPT !.sinks = <<"S2">>])
    /\ handed = [n \in Names |-> {}]
    /\ again = FALSE
    /\ call = NoCall
    /\ written = <<>>
    /\ streams = <<>>
    /\ threads = [t \in Threads |-> Idle]
    /\ got = {}
    /\ os = [sink \in Sinks |-> <<>>]
    /\ InitLib

NextEntry ==
    \/ Tick
    \/ \E l \in DOMAIN heap : Log(l, FATAL, "m")
    \/ StreamCreate(LoggerA, ERR)
    \/ \E s \in Live : StreamInsert(s, IF streams[s].vals = <<>> THEN Str("x=")
                                        ELSE Num(5))
    \/ \E s \in Live : StreamDestroy(s)

SpecEntry == InitEntry /\ [][NextEntry]_vars

(***************************************************************************)
(* A fresh hierarchy: getLogger for every name, the caller keeping the      *)
(* pointers, and nothing configured.                                        *)
(***************************************************************************)
\* getRootLogger(): the function-local static root_logger
getRootLogger == RootId

NextFresh == \E name \in Names : GetLoggerKeep(name)

SpecFresh == Init /\ [][NextFresh]_vars

(***************************************************************************)
(* Sinks added and removed: one logger below the root, each logger with up  *)
(* to MaxSinks attachments.                                                 *)
(***************************************************************************)
\* the sink lists of all loggers
SinkLists(hp) == [l \in DOMAIN hp |-> hp[l].sinks]

\* l->addSink(sink)
AddSinkTo(l, sink) ==
    /\ Len(heap[l].sinks) < MaxSinks
    /\ heap' = [heap EXCEPT ![l].sinks = Append(@, sink)]
    /\ call' = [op |-> "addSink", logger |-> l, sink |-> sink,
                before |-> SinkLists(heap)]
    /\ written' = <<>>
    /\ UNCHANGED <<loggers, callerVars, streams, concVars, libVars>>

\* l->removeSink(sink)
RemoveSink(l, sink) ==
    /\ heap' = [heap EXCEPT ![l].sinks = removeSink(@, sink)]
    /\ call' = [op |-> "removeSink", logger |-> l, sink |-> sink,
                before |-> SinkLists(heap)]
    /\ written' = <<>>
    /\ UNCHANGED <<loggers, callerVars, streams, concVars, libVars>>

NextRemove ==
    \/ GetLogger(<<"a">>)
    \/ \E l \in DOMAIN heap, sink \in Sinks : AddSinkTo(l, sink)
    \/ \E l \in DOMAIN heap, sink \in Sinks : RemoveSink(l, sink)

SpecRemove == Init /\ [][NextRemove]_vars

(***************************************************************************)
(* The logging macros next to the message form of log, on loggers at any    *)
(* level, the root logger with one sink.                                    *)
(***************************************************************************)
\* L3PP_LOG_CONTEXT: log_context(__FILE__, __LINE__, L3PP_FUNCTION)
L3PP_LOG_CONTEXT == [filename |-> "main.cpp", line |-> 1, funcname |-> "main"]

\* the guard of _L3PP_LOG with the comparison strict
L3PP_guardStrict(hp, L3PP_channel, level) == getLevel(hp, L3PP_channel) < level

\* the guard of _L3PP_LOG: if (L3PP_channel->getLevel() <= level)
L3PP_guard(hp, L3PP_channel, level) == getLevel(hp, L3PP_channel) <= level

\* the levels of L3PP_LOG_TRACE .. L3PP_LOG_FATAL
MacroLevels == {TRACE, DEBUG, INFO, WARN, ERR, FATAL}

\* the channels the macros are used with
Channels == {<<>>} \cup EmitNames

\* _L3PP_LOG(level, channel, expr)
L3PP_LOG(level, channel, expr) ==
    LET r == getLogger(channel, loggers, heap)
        L3PP_channel == r.ret
        st == streamInsert(
                  [streamNew(L3PP_channel, level)
                      EXCEPT !.entry.context = L3PP_LOG_CONTEXT], expr)
    IN  /\ Cardinality(DOMAIN r.heap) <= MaxLoggers + 1
        /\ loggers' = r.loggers
        /\ heap' = r.heap
        /\ IF L3PP_guard(r.heap, L3PP_channel, level)
           THEN /\ written' = streamDtor(r.heap, st)
                /\ call' = [op |-> "macro", logger |-> L3PP_channel,
                            level |-> level, msg |-> streamEntry(st).msg,
                            entries |-> 1]
           ELSE /\ written' = <<>>
                /\ call' = [op |-> "macro", logger |-> L3PP_channel,
                            level |-> level, msg |-> "", entries |-> 0]
        /\ UNCHANGED <<callerVars, streams, concVars, libVars>>

NextMacro ==
    \/ \E l \in DOMAIN heap, level \in LogLevel : SetLevel(l, level)
    \/ \E level \in MacroLevels, channel \in Channels :
           L3PP_LOG(level, channel, Str("x"))
    \/ \E l \in DOMAIN heap, level \in MacroLevels : Log(l, level, "x")

SpecMacro == InitStream /\ [][NextMacro]_vars

(***************************************************************************)
(* The Logger of the legacy variant with two threads.  A thread is between  *)
(* two steps wherever another thread can run: after it took the mutex, and  *)
(* between the statements of a method that takes no mutex.                  *)
(***************************************************************************)
\* the ids sinks are installed under, in the order of std::map
IdOrder == <<"err", "out">>

\* Formatter::channelwidth as constructed
channelwidth == 10

\* std::make_shared<Formatter>()
Formatter == [channelwidth |-> channelwidth]

\* Formatter::configure(f): the width of the longest channel of f, if it is
\* more than channelwidth
configure(fmt, f) ==
    LET longer == {Len(c) : c \in DOMAIN f} \cap {n \in Nat : n > fmt.channelwidth}
    IN  IF longer = {} THEN fmt
        ELSE [fmt EXCEPT !.channelwidth = CHOOSE n \in longer : \A m \in longer : m <= n]

\* std::make_tuple(sink, Filter(), std::make_shared<Formatter>())
make_tuple(sink) ==
    [sink |-> sink, filter |-> Filter(LVL_DEFAULT), formatter |-> Formatter]

\* the keys of Logger::data in the order a range-for visits them
Keys(dt) == SelectSeq(IdOrder, LAMBDA id : id \in DOMAIN dt)

\* the thread t is in the loop of Logger::log
InLoop(t) == callers[t].pc \in {"for", "prefix", "message", "suffix"}

\* the thread t is in a method that changes the sink table, a filter or a
\* formatter
Changing(t) ==
    callers[t].pc \in {"configure", "filter", "formatter", "resetFormatter"}

\* the thread t may enter a method of the Logger
MayCall(t) == callers[t].pc = "outside" /\ callers[t].calls < MaxThreadCalls

\* the thread t returns from the method it is in
Leave(t) ==
    [callers EXCEPT ![t] = [Outside EXCEPT !.calls = callers[t].calls + 1]]

\* configure(id, sink): std::lock_guard<std::mutex> lock(mutex)
ConfigureLock(t, id, sink) ==
    /\ MayCall(t)
    /\ legacy.mutex = "free"
    /\ legacy' = [legacy EXCEPT !.mutex = t]
    /\ callers' = [callers EXCEPT ![t].pc = "configure", ![t].id = id,
                                  ![t].arg = sink]
    /\ UNCHANGED <<regVars, callerVars, emitVars, streams, concVars,
                   now, formatter, formatted, data, checked, startTime>>

\* configure(id, sink): this->data[id] = std::make_tuple(...), and the lock
\* guard is destroyed
ConfigureAssign(t) ==
    /\ callers[t].pc = "configure"
    /\ legacy' = [data |-> (callers[t].id :> make_tuple(callers[t].arg))
                               @@ legacy.data,
                  mutex |-> "free"]
    /\ callers' = Leave(t)
    /\ UNCHANGED <<regVars, callerVars, emitVars, streams, concVars,
                   now, formatter, formatted, data, checked, startTime>>

\* filter(id): data.find(id) and the reference to the Filter returned
FilterFind(t, id) ==
    /\ MayCall(t)
    /\ id \in DOMAIN legacy.data
    /\ callers' = [callers EXCEPT ![t].pc = "filter", ![t].id = id]
    /\ UNCHANGED <<regVars, callerVars, emitVars, streams, concVars,
                   now, formatter, formatted, data, checked, legacy, startTime>>

\* filter(id)(channel, level): data[channel] = level in the Filter
FilterSet(t, channel, level) ==
    /\ callers[t].pc = "filter"
    /\ legacy' = [legacy EXCEPT !.data[callers[t].id].filter =
                                    rule(@, channel, level)]
    /\ callers' = Leave(t)
    /\ UNCHANGED <<regVars, callerVars, emitVars, streams, concVars,
                   now, formatter, formatted, data, checked, startTime>>

\* formatter(id, fmt): data.find(id)
FormatterFind(t, id) ==
    /\ MayCall(t)
    /\ id \in DOMAIN legacy.data
    /\ callers' = [callers EXCEPT ![t].pc = "formatter", ![t].id = id]
    /\ UNCHANGED <<regVars, callerVars, emitVars, streams, concVars,
                   now, formatter, formatted, data, checked, legacy, startTime>>

\* formatter(id, fmt): std::get<2>(it->second) = fmt, and fmt configured
\* with the filter
FormatterAssign(t) ==
    /\ callers[t].pc = "formatter"
    /\ legacy' = [legacy EXCEPT !.data[callers[t].id].formatter =
                      configure(Formatter, legacy.data[callers[t].id].filter)]
    /\ callers' = Leave(t)
    /\ UNCHANGED <<regVars, callerVars, emitVars, streams, concVars,
                   now, formatter, formatted, data, checked, startTime>>

\* resetFormatter() is entered
ResetFormatterEnter(t) ==
    /\ MayCall(t)
    /\ callers' = [callers EXCEPT ![t].pc = "resetFormatter"]
    /\ UNCHANGED <<regVars, callerVars, emitVars, streams, concVars,
                   now, formatter, formatted, data, checked, legacy, startTime>>

\* resetFormatter(): every formatter configured with the filter next to it
ResetFormatter(t) ==
    /\ callers[t].pc = "resetFormatter"
    /\ legacy' = [legacy EXCEPT !.data =
                      [id \in DOMAIN @ |->
                          [@[id] EXCEPT !.formatter =
                               configure(@, legacy.data[id].filter)]]]
    /\ callers' = Leave(t)
    /\ UNCHANGED <<regVars, callerVars, emitVars, streams, concVars,
                   now, formatter, formatted, data, checked, startTime>>

\* log(level, channel, ss, info): std::lock_guard<std::mutex> lock(mutex)
LogLock(t, level, channel) ==
    /\ MayCall(t)
    /\ legacy.mutex = "free"
    /\ legacy' = [legacy EXCEPT !.mutex = t]
    /\ callers' = [callers EXCEPT ![t].pc = "for", ![t].it = 1,
                                  ![t].arg = [level |-> level,
                                              channel |-> channel]]
    /\ UNCHANGED <<regVars, callerVars, emitVars, streams, concVars,
                   now, formatter, formatted, data, checked, startTime>>

\* for (auto t: data): the next tuple copied and its filter checked, or the
\* end of the loop, where the lock guard is destroyed
LogFor(t) ==
    /\ callers[t].pc = "for"
    /\ LET keys == Keys(legacy.data)
           it == callers[t].it
           copy == legacy.data[keys[it]]
       IN  IF it > Len(keys)
           THEN /\ legacy' = [legacy EXCEPT !.mutex = "free"]
                /\ callers' = Leave(t)
           ELSE /\ callers' = [callers EXCEPT
                       ![t].t = copy,
                       ![t].pc = IF check(copy.filter, callers[t].arg.channel,
                                          callers[t].arg.level) = TRUE
                                 THEN "prefix" ELSE "for",
                       ![t].it = IF check(copy.filter, callers[t].arg.channel,
                                          callers[t].arg.level) = TRUE
                                 THEN @ ELSE @ + 1]
                /\ UNCHANGED legacy
    /\ UNCHANGED <<regVars, callerVars, emitVars, streams, concVars,
                   now, formatter, formatted, data, checked, startTime>>

\* a piece of one log call written to the stream of the sink of the tuple
Piece(t, part) == [thread |-> t, call |-> callers[t].calls, part |-> part]

\* std::get<2>(t.second)->prefix(std::get<0>(t.second)->log(), ...)
LogPrefix(t) ==
    /\ callers[t].pc = "prefix"
    /\ os' = [os EXCEPT ![callers[t].t.sink] = Append(@, Piece(t, "prefix"))]
    /\ callers' = [callers EXCEPT ![t].pc = "message"]
    /\ UNCHANGED <<regVars, callerVars, emitVars, streams, threads, got,
                   now, formatter, formatted, data, checked, legacy, startTime>>

\* std::get<0>(t.second)->log() << ss.str()
LogMessage(t) ==
    /\ callers[t].pc = "message"
    /\ os' = [os EXCEPT ![callers[t].t.sink] = Append(@, Piece(t, "message"))]
    /\ callers' = [callers EXCEPT ![t].pc = "suffix"]
    /\ UNCHANGED <<regVars, callerVars, emitVars, streams, threads, got,
                   now, formatter, formatted, data, checked, legacy, startTime>>

\* std::get<2>(t.second)->suffix(std::get<0>(t.second)->log()), and on to the
\* next tuple
LogSuffix(t) ==
    /\ callers[t].pc = "suffix"
    /\ os' = [os EXCEPT ![callers[t].t.sink] = Append(@, Piece(t, "suffix"))]
    /\ callers' = [callers EXCEPT ![t].pc = "for", ![t].it = @ + 1]
    /\ UNCHANGED <<regVars, callerVars, emitVars, streams, threads, got,
                   now, formatter, formatted, data, checked, legacy, startTime>>

\* after logger().configure("out", S1)
InitLogger ==
    /\ loggers = <<>>
    /\ heap = (RootId :> RootLogger)
    /\ handed = [n \in Names |-> {}]
    /\ again = FALSE
    /\ call = NoCall
    /\ written = <<>>
    /\ streams = <<>>
    /\ threads = [t \in Threads |-> Idle]
    /\ got = {}
    /\ os = [sink \in Sinks |-> <<>>]
    /\ now = 0
    /\ formatter = basic_formatter
    /\ formatted = [op |-> "none"]
    /\ data = Filter(LVL_DEFAULT)
    /\ checked = [op |-> "none"]
    /\ legacy = [Logger EXCEPT !.data = ("out" :> make_tuple("S1"))]
    /\ callers = [t \in Threads |-> Outside]
    /\ startTime = NotStarted

NextLogger ==
    \/ \E t \in Threads : ConfigureLock(t, "err", "S2")
    \/ \E t \in Threads : ConfigureAssign(t)
    \/ \E t \in Threads : FilterFind(t, "out")
    \/ \E t \in Threads : FilterSet(t, <<"a">>, LVL_OFF)
    \/ \E t \in Threads : FormatterFind(t, "out")
    \/ \E t \in Threads : FormatterAssign(t)
    \/ \E t \in Threads : ResetFormatterEnter(t)
    \/ \E t \in Threads : ResetFormatter(t)
    \/ \E t \in Threads : LogLock(t, LVL_WARN, <<"a">>)
    \/ \E t \in Threads : LogFor(t)
    \/ \E t \in Threads : LogPrefix(t)
    \/ \E t \in Threads : LogMessage(t)
    \/ \E t \in Threads : LogSuffix(t)

SpecLogger == InitLogger /\ [][NextLogger]_vars

(***************************************************************************)
(* Sinks attached more than once: the root and the logger "a", each with up *)
(* to MaxSinks attachments, and emissions on both.                          *)
(***************************************************************************)
NextAttach ==
    \/ GetLogger(<<"a">>)
    \/ \E l \in DOMAIN heap \ {RootId}, additive \in BOOLEAN :
           SetAdditive(l, additive)
    \/ \E l \in DOMAIN heap, sink \in Sinks : AddSinkTo(l, sink)
    \/ \E l \in DOMAIN heap : Log(l, FATAL, "m")

SpecAttach == Init /\ [][NextAttach]_vars

(***************************************************************************)
(* Levels of ancestors: the root with the sink S1 and the logger "a" with   *)
(* the sink S2, each at any level, and emissions on both at the levels of   *)
(* the macros.                                                              *)
(***************************************************************************)
NextAncestor ==
    \/ \E l \in DOMAIN heap, level \in LogLevel : SetLevel(l, level)
    \/ \E l \in DOMAIN heap \ {RootId}, additive \in BOOLEAN :
           SetAdditive(l, additive)
    \/ \E l \in DOMAIN heap, level \in MacroLevels : Log(l, level, "m")

SpecAncestor == InitEntry /\ [][NextAncestor]_vars

(***************************************************************************)
(* The wall time field: the root's sink S1 with a formatter that prints the *)
(* milliseconds since the start and the message; the clock ticks, log       *)
(* streams are created, written to and destroyed, and initialize() is       *)
(* called at any time or not at all.                                        *)
(***************************************************************************)
\* makeTemplateFormatter(field<Field::WallTime>(), " ", field<Field::Message>())
WallTimeFormatter ==
    makeTemplateFormatter(<<basic_field("WallTime", 0, "RIGHT", " "),
                            literal(" "),
                            basic_field("Message", 0, "RIGHT", " ")>>)

\* the formatter has a field that calls GetStartTime
HasWallTime(fmt) ==
    /\ fmt.class = "basic_template_formatter"
    /\ \E i \in 1..Len(fmt.formatters) :
           /\ fmt.formatters[i].kind = "field"
           /\ fmt.formatters[i].field = "WallTime"

\* initialize(): detail::GetStartTime()
Initialize ==
    /\ startTime' = GetStartTime(startTime, now)
    /\ Quiet
    /\ UNCHANGED <<regVars, callerVars, streams, concVars,
                   now, formatter, formatted, data, checked, legacyVars>>

\* s goes out of scope: ~basic_log_stream(), and every sink the entry gets
\* to writes formatMessage(entry) to its stream
StreamDestroyFormatted(s) ==
    LET entry == streamEntry(streams[s].obj)
        out == streamDtor(heap, streams[s].obj)
    IN  /\ streams' = [streams EXCEPT ![s].obj.entry = entry,
                                      ![s].live = FALSE,
                                      ![s].emitted = @ + 1]
        /\ written' = out
        /\ call' = [op |-> "destroy", stream |-> s, entries |-> 0]
        /\ IF out # <<>>
           THEN /\ formatted' = [op |-> "formatMessage", context |-> entry,
                                 text |-> formatMessage(heap, formatter, entry)]
                /\ startTime' = IF HasWallTime(formatter)
                                THEN GetStartTime(startTime, now)
                                ELSE startTime
           ELSE UNCHANGED <<formatted, startTime>>
        /\ UNCHANGED <<regVars, callerVars, concVars,
                       now, formatter, data, checked, legacyVars>>

\* after getRootLogger()->addSink(S1), S1 made with the wall time formatter
InitWallTime ==
    /\ loggers = <<>>
    /\ heap = (RootId :> [RootLogger EXCEPT !.sinks = <<"S1">>])
    /\ handed = [n \in Names |-> {}]
    /\ again = FALSE
    /\ call = NoCall
    /\ written = <<>>
    /\ streams = <<>>
    /\ threads = [t \in Threads |-> Idle]
    /\ got = {}
    /\ os = [sink \in Sinks |-> <<>>]
    /\ now = 0
    /\ formatter = WallTimeFormatter
    /\ formatted = [op |-> "none"]
    /\ data = Filter(LVL_DEFAULT)
    /\ checked = [op |-> "none"]
    /\ InitLegacy
    /\ startTime = NotStarted

NextWallTime ==
    \/ Tick
    \/ Initialize
    \/ StreamCreate(RootId, ERR)
    \/ \E s \in Live : StreamInsert(s, Str("x"))
    \/ \E s \in Live : StreamDestroyFormatted(s)

SpecWallTime == InitWallTime /\ [][NextWallTime]_vars

(***************************************************************************)
(* Properties of the hierarchy.                                            *)
(***************************************************************************)
\* the loggers from l up to the root, following the parent links
RECURSIVE PathToRoot(_, _)
PathToRoot(hp, l) ==
    IF hp[l].parent = NULL THEN <<l>> ELSE <<l>> \o PathToRoot(hp, hp[l].parent)

\* C1: a logger whose stored level is INHERIT has as its effective level the
\* stored level of the nearest ancestor whose stored level is concrete; there
\* is such an ancestor, and the effective level is never INHERIT.
C1_InheritResolves ==
    \A l \in DOMAIN heap :
        LET path == PathToRoot(heap, l)
            concrete == {i \in 1..Len(path) : heap[path[i]].level # INHERIT}
            nearest == CHOOSE i \in concrete : \A j \in concrete : i <= j
        IN  heap[l].level = INHERIT =>
                /\ concrete # {}
                /\ getLevel(heap, l) = heap[path[nearest]].level
                /\ getLevel(heap, l) \in TRACE..OFF

\* a logger inherits through an INHERIT parent from a grandparent that is not
\* the root and was given a level with setLevel
C1_Witness ==
    \E l \in DOMAIN heap :
        /\ heap[l].level = INHERIT
        /\ heap[l].parent # NULL
        /\ heap[heap[l].parent].level = INHERIT
        /\ heap[heap[l].parent].parent \notin {NULL, RootId}
        /\ heap[heap[heap[l].parent].parent].level = OFF
        /\ heap[RootId].level = DEBUG
        /\ getLevel(heap, l) = OFF

\* C2: every pointer getLogger has returned for a name is the one pointer the
\* registry holds for the name (the root for the empty name), whatever calls
\* were made in between.
C2_GetLoggerIdempotent ==
    \A n \in Names :
        handed[n] # {} =>
            IF n = <<>> THEN handed[n] = {RootId}
            ELSE n \in DOMAIN loggers /\ handed[n] = {loggers[n]}

\* getLogger was called again for a name, after the logger "a" was configured
C2_Witness ==
    /\ again
    /\ \E n \in DOMAIN loggers : Len(n) > 1 /\ handed[n] # {}
    /\ \E l \in Configured :
            heap[l].level = OFF /\ ~heap[l].additive /\ heap[l].sinks # <<>>

\* no "." in s
DotFree(s) == \A i \in 1..Len(s) : s[i] # "."

\* the name n cut at its last "."; the empty name when n has no "."
Cut(n) ==
    IF DotFree(n) THEN <<>>
    ELSE CHOOSE p \in Names :
            /\ Len(p) < Len(n)
            /\ p = SubSeq(n, 1, Len(p))
            /\ n[Len(p) + 1] = "."
            /\ DotFree(SubSeq(n, Len(p) + 2, Len(n)))

\* the logger registered for the name n, the root for the empty name
Registered(n) == IF n = <<>> THEN RootId ELSE loggers[n]

\* C3: the registry is closed under cutting a name at its last ".", the
\* parent of the logger of a name is the logger of the cut name, and each name
\* has one logger object: no object was constructed twice for a name or left
\* out of the registry.
C3_PrefixClosed ==
    /\ <<>> \notin DOMAIN loggers
    /\ \A n \in DOMAIN loggers :
            /\ Cut(n) = <<>> \/ Cut(n) \in DOMAIN loggers
            /\ loggers[n] \in DOMAIN heap
            /\ heap[loggers[n]].name = n
            /\ heap[loggers[n]].parent = Registered(Cut(n))
    /\ \A p \in DOMAIN heap \ {RootId} :
            p[1] \in DOMAIN loggers /\ loggers[p[1]] = p
    /\ Cardinality(DOMAIN heap) = Cardinality(DOMAIN loggers) + 1

\* a name with two ancestors below the root is registered, and getLogger was
\* never called for either ancestor
C3_Witness ==
    \E n \in DOMAIN loggers :
        /\ Cut(n) # <<>>
        /\ Cut(Cut(n)) # <<>>
        /\ handed[n] # {}
        /\ handed[Cut(n)] = {}
        /\ handed[Cut(Cut(n))] = {}

(***************************************************************************)
(* Properties of the emission.                                             *)
(***************************************************************************)
\* the loggers an entry submitted to l is offered to: l, and the parent of
\* each logger it is offered to that is additive
Reached(l) ==
    LET path == PathToRoot(heap, l)
    IN  {path[i] : i \in {k \in 1..Len(path) :
                            \A j \in 1..(k - 1) : heap[path[j]].additive}}

\* sink is in the sink list of the logger l
AttachedTo(sink, l) == \E i \in 1..Len(heap[l].sinks) : heap[l].sinks[i] = sink

\* the most recent call wrote to sink
WrittenTo(sink) == \E i \in 1..Len(written) : written[i].sink = sink

\* C4: log(lvl, msg) on L delivers the entry to the sink S if and only if S
\* is attached to a logger reached from L through additive loggers, lvl is at
\* least L's effective level and lvl is at least S's own level; it delivers
\* nothing but this entry.
C4_DeliveredIff ==
    call.op = "log" =>
        LET entry == Entry(call.logger, call.level, call.msg)
        IN  /\ \A i \in 1..Len(written) : written[i].entry = entry
            /\ \A sink \in Sinks :
                   WrittenTo(sink) <=>
                       /\ \E l \in Reached(call.logger) : AttachedTo(sink, l)
                       /\ call.level >= getLevel(heap, call.logger)
                       /\ call.level >= sinkLevel(sink)

\* an entry logged to a logger without sinks reached a sink of an ancestor,
\* and did not reach the sink of an ancestor beyond a non-additive logger
C4_Witness ==
    /\ call.op = "log"
    /\ heap[call.logger].sinks = <<>>
    /\ heap[call.logger].level = INHERIT
    /\ \E sink \in Sinks : WrittenTo(sink)
    /\ \E sink \in Sinks :
           /\ ~WrittenTo(sink)
           /\ \E l \in DOMAIN heap : AttachedTo(sink, l)

\* C5: an emission below the logger's effective level constructs no entry and
\* writes to no sink, in the message form and in the stream form.
C5_SuppressedSilent ==
    (call.op \in {"log", "stream"} /\ call.level < getLevel(heap, call.logger))
        => (written = <<>> /\ call.entries = 0)

\* C6: when a logger N on the way from the emitting logger to the root is not
\* additive, every sink written to is attached to N or to a logger before N
\* on the way, and when N is reached by an entry that was not discarded the
\* sinks of N are written to.
C6_NonAdditiveStops ==
    call.op \in {"log", "stream"} =>
        LET path == PathToRoot(heap, call.logger)
        IN  \A k \in 1..Len(path) :
                ~heap[path[k]].additive =>
                    /\ \A i \in 1..Len(written) :
                           \E j \in 1..k : AttachedTo(written[i].sink, path[j])
                    /\ (call.entries = 1
                            /\ \A j \in 1..(k - 1) : heap[path[j]].additive)
                           => \A sink \in Sinks :
                                  (AttachedTo(sink, path[k])
                                      /\ call.level >= sinkLevel(sink))
                                  => WrittenTo(sink)

\* an entry emitted below a non-additive logger N reached the sink of N and
\* not the sink of the root
C6_Witness ==
    /\ call.op \in {"log", "stream"}
    /\ LET path == PathToRoot(heap, call.logger)
       IN  /\ Len(path) = 3
           /\ ~heap[path[2]].additive
           /\ \E sink \in Sinks :
                  AttachedTo(sink, path[2]) /\ WrittenTo(sink)
           /\ \E sink \in Sinks :
                  AttachedTo(sink, path[3]) /\ ~WrittenTo(sink)

(***************************************************************************)
(* Properties of the log stream.                                           *)
(***************************************************************************)
\* the text of a streamed value
Shown(v) == IF v.type = "int" THEN ToString(v.val) ELSE v.val

\* the texts of the streamed values, one after the other
RECURSIVE Concatenated(_)
Concatenated(vals) ==
    IF vals = <<>> THEN "" ELSE Shown(Head(vals)) \o Concatenated(Tail(vals))

RECURSIVE Emitted(_, _)
Emitted(sts, ids) ==
    IF ids = {} THEN 0
    ELSE LET s == CHOOSE x \in ids : TRUE
         IN  sts[s].emitted + Emitted(sts, ids \ {s})

\* the log streams that hold the entry of the stream o was created with
Lineage(o) == {s \in DOMAIN streams : streams[s].origin = o}

\* C8: a log stream that was moved from does not emit, and when the streams
\* an entry was moved through are all destroyed the entry was emitted once.
C8_MoveEmitsOnce ==
    /\ \A s \in DOMAIN streams : streams[s].movedFrom => streams[s].emitted = 0
    /\ \A o \in DOMAIN streams :
           (/\ \E s \in Lineage(o) : streams[s].movedFrom
            /\ \A s \in Lineage(o) : ~streams[s].live)
               => Emitted(streams, Lineage(o)) = 1

(***************************************************************************)
(* Properties of the calls of several threads.                             *)
(***************************************************************************)
\* the logger objects that were constructed with the name
Instances(name) == {l \in DOMAIN heap : heap[l].name = name}

\* C9: whatever threads call getLogger, a name has at most one logger
\* object, and the object a call returned for a name is the one the registry
\* holds for it.
C9_NoDuplicateLoggers ==
    /\ \A name \in Names : Cardinality(Instances(name)) <= 1
    /\ \A g \in got : g[1] # <<>> => g[2] = Registered(g[1])

\* the sinks the entry of the thread t is being written to or is still to be
\* written to: the rest of the sink list of the logger its logEntry is at,
\* and the sinks of the loggers the entry is offered to after it
SinksAhead(t) ==
    LET th == threads[t]
    IN  IF th.pc = "logEntry"
        THEN {heap[th.node].sinks[i] : i \in th.idx..Len(heap[th.node].sinks)}
             \cup UNION {{heap[l].sinks[i] : i \in DOMAIN heap[l].sinks} :
                             l \in Reached(th.node) \ {th.node}}
        ELSE {}

\* the text of every entry is in the sink's stream in one piece
Contiguous(out) ==
    \A i \in DOMAIN out :
        out[i].part < WriteChunks =>
            (i < Len(out) =>
                /\ out[i + 1].entry = out[i].entry
                /\ out[i + 1].part = out[i].part + 1)

\* C10: two threads are never both in the fan-out of an entry to a sink they
\* share, and the text a sink's stream holds is that of one entry after the
\* other.
C10_EmissionsSerialized ==
    /\ \A t \in Threads : \A u \in Threads \ {t} :
           SinksAhead(t) \cap SinksAhead(u) = {}
    /\ \A sink \in Sinks : Contiguous(os[sink])

(***************************************************************************)
(* Properties of the formatters.                                           *)
(***************************************************************************)
\* the names the levels of entries are rendered as
LevelName(level) ==
    CASE level = TRACE -> "TRACE" [] level = DEBUG -> "DEBUG"
      [] level = INFO -> "INFO" [] level = WARN -> "WARN"
      [] level = ERR -> "ERROR" [] level = FATAL -> "FATAL"

\* C11: the default formatter renders an entry of a level from TRACE to
\* FATAL as the name of the level, " - ", the message and one newline.
C11_DefaultFormat ==
    (/\ formatted.op = "formatMessage"
     /\ formatter = basic_formatter
     /\ formatted.context.level \in TRACE..FATAL)
        => formatted.text = LevelName(formatted.context.level) \o " - "
                               \o formatted.context.msg \o "\n"

\* a FATAL entry with the message "boom" was rendered as "FATAL - boom\n"
C11_Witness ==
    /\ formatted.op = "formatMessage"
    /\ formatter = basic_formatter
    /\ formatted.context.level = FATAL
    /\ formatted.context.msg = "boom"
    /\ formatted.text = "FATAL - boom\n"

\* what the field t shows of the entry
Content(t, context) ==
    CASE t.field = "LoggerName" -> string(heap[context.logger].name)
      [] t.field = "Message" -> context.msg
      [] t.field = "LogLevel" -> LevelName(context.level)

\* C12: a template formatter of one LEFT field renders the content followed
\* by fill characters up to the width, and [LoggerName (6, LEFT, '.'),
\* " | ", Message] renders the entry of "ab" with the message "hi" as
\* "ab.... | hi".
C12_LeftPadsRight ==
    formatted.op = "formatMessage" /\ formatter.class = "basic_template_formatter"
        => LET ts == formatter.formatters
               context == formatted.context
           IN  /\ (Len(ts) = 1 /\ ts[1].kind = "field" /\ ts[1].j = "LEFT"
                      /\ context.level \in TRACE..FATAL)
                      => formatted.text =
                             Content(ts[1], context)
                                 \o pad(ts[1].Fill,
                                        ts[1].Width - Len(Content(ts[1], context)))
               /\ (/\ ts = <<basic_field("LoggerName", 6, "LEFT", "."),
                              literal(" | "),
                              basic_field("Message", 0, "RIGHT", " ")>>
                   /\ context.logger = LoggerAb
                   /\ context.msg = "hi")
                      => formatted.text = "ab.... | hi"

\* the rendering of one element of a template formatter by itself
Alone(t, context) ==
    IF t.kind = "literal" THEN t.text
    ELSE formatElement(heap, t, stringstream, context).str

\* the renderings of the elements one after the other
RECURSIVE Renderings(_, _)
Renderings(ts, context) ==
    IF ts = <<>> THEN ""
    ELSE Alone(Head(ts), context) \o Renderings(Tail(ts), context)

\* C13: the text of a template formatter is the renderings of its elements
\* in the order of declaration, with nothing between them and nothing after
\* them, a literal element rendered as its text.
C13_TemplateConcatenates ==
    formatted.op = "formatMessage" /\ formatter.class = "basic_template_formatter"
        => formatted.text = Renderings(formatter.formatters, formatted.context)

\* a formatter of a padded field, a literal and a field of another layout
\* has rendered an entry, and the text does not end in a newline
C13_Witness ==
    /\ formatted.op = "formatMessage"
    /\ formatter = makeTemplateFormatter(
           <<basic_field("LoggerName", 6, "LEFT", "."), literal(" | "),
             basic_field("Message", 6, "RIGHT", " ")>>)
    /\ formatted.context.logger = LoggerAb
    /\ formatted.context.msg = "hi"
    /\ formatted.text = "....ab |     hi"

(***************************************************************************)
(* Properties of the levels.                                               *)
(***************************************************************************)
\* C14: the stored level of the root logger is never INHERIT and
\* setLevel(INHERIT) on the root leaves the root as it is; setLevel(INHERIT)
\* on another logger stores INHERIT, and the logger has the effective level
\* of its parent.
C14_InheritOnRoot ==
    [][/\ heap'[RootId].level # INHERIT
       /\ SetLevel(RootId, INHERIT) => heap'[RootId] = heap[RootId]
       /\ \A l \in DOMAIN heap \ {RootId} :
              SetLevel(l, INHERIT)
                  => /\ heap'[l].level = INHERIT
                     /\ getLevel(heap', l) = getLevel(heap', heap'[l].parent)]_vars

\* the root was given a level other than its default, and a logger that
\* stores INHERIT below a logger that was given a level follows that logger
C14_Witness ==
    /\ heap[RootId].level = OFF
    /\ \E l \in DOMAIN heap \ {RootId} :
           /\ heap[l].level = INHERIT
           /\ heap[l].parent # RootId
           /\ heap[heap[l].parent].level = DEBUG
           /\ getLevel(heap, l) = DEBUG

\* C15: an emission with the message level INHERIT, in either form, writes
\* to no sink, and no sink is ever written an entry of the level INHERIT.
C15_InheritMessageIgnored ==
    /\ (call.op \in {"log", "stream"} /\ call.level = INHERIT) => written = <<>>
    /\ \A i \in DOMAIN written : written[i].entry.level # INHERIT

\* C16: an emission on a logger whose effective level is OFF writes to no
\* sink, whatever the level of the message.
C16_OffSuppressesAll ==
    (call.op \in {"log", "stream"} /\ getLevel(heap, call.logger) = OFF)
        => written = <<>>

(***************************************************************************)
(* Properties of configuring while emitting.                               *)
(***************************************************************************)
\* the first n elements of a sequence
Prefix(seq, n) == SubSeq(seq, 1, n)

\* C17: the loop of an emission is never in a sink list another thread has
\* changed since the loop entered it, an emission in flight has written to
\* the first of the sinks that were on its path when it started, and a
\* finished emission has written to exactly those sinks.
C17_MutationSafe ==
    \A t \in Threads :
        /\ ~threads[t].raced
        /\ threads[t].pc # "undefined"
        /\ Len(threads[t].wrote) <= Len(threads[t].start)
        /\ threads[t].wrote = Prefix(threads[t].start, Len(threads[t].wrote))
        /\ threads[t].pc = "idle" => threads[t].wrote = threads[t].start

(***************************************************************************)
(* Properties of the order of the sink writes.                             *)
(***************************************************************************)
\* the sink lists of the loggers of a path from its k-th logger on, one
\* after the other, up to the first logger that is not additive
RECURSIVE FanOut(_, _, _)
FanOut(hp, path, k) ==
    IF k > Len(path) THEN <<>>
    ELSE hp[path[k]].sinks
             \o (IF hp[path[k]].additive THEN FanOut(hp, path, k + 1) ELSE <<>>)

\* C18: a sink list only grows at its end, so it is in the order of the
\* addSink calls, and an emission that is not discarded writes to the sinks
\* of the emitting logger in the order of its list, then to those of its
\* parent, and so on up the path.
C18_FanOutOrder ==
    [][/\ \A l \in DOMAIN heap :
              /\ Len(heap'[l].sinks) >= Len(heap[l].sinks)
              /\ Prefix(heap'[l].sinks, Len(heap[l].sinks)) = heap[l].sinks
       /\ (call'.op \in {"log", "stream"} /\ call'.entries = 1)
              => SinksOf(written') =
                     FanOut(heap', PathToRoot(heap', call'.logger), 1)]_vars

\* an emission on a logger below the root wrote to the logger's sink S2 and
\* then to the root's sink S1
C18_Witness ==
    /\ call.op = "log"
    /\ call.logger # RootId
    /\ heap[call.logger].sinks = <<"S2">>
    /\ heap[RootId].sinks = <<"S1">>
    /\ SinksOf(written) = <<"S2", "S1">>

(***************************************************************************)
(* Properties of the legacy filter.                                        *)
(***************************************************************************)
\* the channel itself, the channel cut before one of its dots, and ""
DotPrefixes(channel) ==
    {channel, <<>>}
        \cup {SubSeq(channel, 1, k - 1) : k \in {i \in 1..Len(channel) : channel[i] = "."}}

\* the longest of them that has a rule
Closest(channel) ==
    LET ruled == DotPrefixes(channel) \cap DOMAIN data
    IN  CHOOSE p \in ruled : \A q \in ruled : Len(q) <= Len(p)

\* C19: the filter always has a rule for "", and check finds the rule of the
\* channel or else of its longest prefix before a dot that has one, or else
\* of "", and returns whether the level is at least the level of that rule.
C19_FilterClosestRule ==
    /\ <<>> \in DOMAIN data
    /\ checked.op = "check"
           => /\ checked.result \in BOOLEAN
              /\ checked.result = (checked.level >= data[Closest(checked.channel)])

\* with rules for "" and "a" only, a check of "a.a" was let through by the
\* rule of "a" and would not have been by the rule of ""
C19_Witness ==
    /\ DOMAIN data = {<<>>, <<"a">>}
    /\ data[<<>>] = LVL_OFF
    /\ data[<<"a">>] = LVL_DEBUG
    /\ checked.op = "check"
    /\ checked.channel = <<"a", ".", "a">>
    /\ checked.level = LVL_WARN
    /\ checked.result = TRUE

(***************************************************************************)
(* Properties of the entries the sinks are handed.                         *)
(***************************************************************************)
\* C20: the sinks of one emission, those of the emitting logger and those of
\* its ancestors, are all handed one and the same entry: the logger and the
\* level are those log was called with, the timestamp is the time of that
\* call, the context is the one passed, and the message is the one passed
\* or, for a log stream, the text streamed in by the time it is destroyed;
\* until then the entry of a log stream has no message.
C20_EntryUnchanged ==
    /\ call.op = "log" =>
           \A i \in DOMAIN written :
               written[i].entry =
                   [logger |-> call.logger, level |-> call.level,
                    msg |-> call.msg, timestamp |-> now, context |-> log_context]
    /\ \A s \in DOMAIN streams :
           LET st == streams[s]
           IN  (~st.movedFrom /\ ~st.movedTo) =>
                   /\ st.live => st.obj.entry.msg = ""
                   /\ (call.op = "destroy" /\ call.stream = s) =>
                          \A i \in DOMAIN written :
                              written[i].entry =
                                  [logger |-> st.created.logger,
                                   level |-> st.created.level,
                                   msg |-> Concatenated(st.vals),
                                   timestamp |-> st.created.timestamp,
                                   context |-> log_context]

\* a log stream of the logger "a" that was streamed into was destroyed after
\* the clock had ticked, and the sink of "a" and the sink of the root were
\* handed the entry with the time of its construction
C20_Witness ==
    \E s \in DOMAIN streams :
        /\ call.op = "destroy" /\ call.stream = s
        /\ streams[s].created = [logger |-> LoggerA, level |-> ERR, timestamp |-> 0]
        /\ streams[s].vals = <<Str("x="), Num(5)>>
        /\ now = MaxClock
        /\ SinksOf(written) = <<"S2", "S1">>
        /\ written[1].entry = written[2].entry
        /\ written[2].entry.msg = "x=5"
        /\ written[2].entry.timestamp = 0

\* C21: in a hierarchy nothing has configured, the root has the name "", no
\* parent and the stored level WARN; every logger getLogger created has the
\* stored level INHERIT, is additive and has no sinks; getLogger("") hands out
\* the instance getRootLogger() returns; and every logger's effective level
\* is WARN.
C21_FreshDefaults ==
    /\ heap[getRootLogger].name = <<>>
    /\ heap[getRootLogger].parent = NULL
    /\ heap[getRootLogger].level = WARN
    /\ \A l \in DOMAIN heap \ {getRootLogger} :
           /\ heap[l].level = INHERIT
           /\ heap[l].additive
           /\ heap[l].sinks = <<>>
    /\ handed[<<>>] \subseteq {getRootLogger}
    /\ \A l \in DOMAIN heap : getLevel(heap, l) = WARN

\* getLogger("") was called and getLogger created a logger two levels below
\* the root
C21_Witness ==
    /\ handed[<<>>] = {getRootLogger}
    /\ \E l \in DOMAIN heap :
           /\ heap[l].parent \notin {NULL, getRootLogger}
           /\ heap[heap[l].parent].parent = getRootLogger
           /\ l \in handed[heap[l].name]

\* the number of times sink is in sinks
Count(sinks, sink) == Cardinality({i \in 1..Len(sinks) : sinks[i] = sink})

\* sinks without its i-th element
Without(sinks, i) == SubSeq(sinks, 1, i - 1) \o SubSeq(sinks, i + 1, Len(sinks))

\* C22: removeSink(S) on a logger that S is not attached to leaves the sink
\* list as it was; on a logger that S is attached to it takes out the first
\* attachment of S in insertion order and nothing else, so the other sinks
\* keep their order and S is attached one time less; no other logger's list
\* changes.
C22_RemovesFirstOnly ==
    call.op = "removeSink" =>
        LET old == call.before[call.logger]
            kept == heap[call.logger].sinks
            at == {i \in 1..Len(old) : old[i] = call.sink}
            first == CHOOSE i \in at : \A j \in at : i <= j
        IN  /\ at = {} => kept = old
            /\ at # {} =>
                   /\ kept = Without(old, first)
                   /\ Count(kept, call.sink) = Count(old, call.sink) - 1
                   /\ \A s \in Sinks \ {call.sink} :
                          SelectSeq(kept, LAMBDA x : x = s)
                              = SelectSeq(old, LAMBDA x : x = s)
            /\ \A l \in DOMAIN heap \ {call.logger} :
                   heap[l].sinks = call.before[l]

\* S1 was attached twice with S2 in between, and one removeSink(S1) left S2
\* ahead of the second attachment of S1
C22_Witness ==
    /\ call.op = "removeSink"
    /\ call.sink = "S1"
    /\ call.before[call.logger] = <<"S1", "S2", "S1">>
    /\ heap[call.logger].sinks = <<"S2", "S1">>

\* C23: the guard of the logging macro is true exactly when log(level, msg) on
\* the same logger does not discard, for every logger and every level; a macro
\* whose guard was false made no entry and wrote nothing, and one whose guard
\* was true made one entry.
C23_MacroAsMessageForm ==
    /\ \A l \in DOMAIN heap, level \in LogLevel :
           L3PP_guard(heap, l, level) <=> ~discards(heap, l, level)
    /\ call.op = "macro" =>
           /\ call.entries = 1 <=> ~discards(heap, call.logger, call.level)
           /\ call.entries = 0 => written = <<>>
           /\ call.entries = 1 =>
                  \A i \in 1..Len(written) :
                      /\ written[i].entry.logger = call.logger
                      /\ written[i].entry.level = call.level

\* a macro at exactly the effective level of its logger, two levels below the
\* root, was written to the root's sink
C23_Witness ==
    /\ call.op = "macro"
    /\ call.logger \notin {NULL, RootId}
    /\ heap[call.logger].parent # RootId
    /\ getLevel(heap, call.logger) = call.level
    /\ call.entries = 1
    /\ Len(written) = 1
    /\ written[1].sink = "S1"

\* the pieces one log call writes to a sink, in order
Parts == <<"prefix", "message", "suffix">>

\* C24: while a thread is in the loop of Logger::log over the sinks, no other
\* thread is in configure, filter(id)(...), formatter(id, fmt) or
\* resetFormatter; and in every sink's stream the prefix, the message and the
\* suffix of one log call follow each other with nothing of another call in
\* between.
C24_LoggerThreadSafe ==
    /\ \A t \in Threads : \A u \in Threads \ {t} : InLoop(t) => ~Changing(u)
    /\ \A sink \in Sinks : \A i \in 1..Len(os[sink]) :
           LET first == i - ((i - 1) % 3)
           IN  /\ os[sink][i].part = Parts[i - first + 1]
               /\ os[sink][i].thread = os[sink][first].thread
               /\ os[sink][i].call = os[sink][first].call

\* the number of attachments of sink on the loggers ls
RECURSIVE Attachments(_, _)
Attachments(sink, ls) ==
    IF ls = {} THEN 0
    ELSE LET l == CHOOSE x \in ls : TRUE
         IN  Count(heap[l].sinks, sink) + Attachments(sink, ls \ {l})

\* the number of writes to sink the most recent call made
Writes(sink) == Cardinality({i \in 1..Len(written) : written[i].sink = sink})

\* C25: an emission that is not discarded writes to every sink as many times
\* as the sink is attached on the loggers the entry reaches: once for a sink
\* attached once, twice for a sink attached to the logger and to an additive
\* ancestor or twice to one logger, and not at all for a sink that is only
\* attached elsewhere.
C25_OncePerAttachment ==
    (call.op = "log" /\ call.entries = 1) =>
        \A sink \in Sinks :
            Writes(sink) = Attachments(sink, Reached(call.logger))

\* one entry was written three times to S1, attached twice to the emitting
\* logger and once to the root, and once to S2
C25_Witness ==
    /\ call.op = "log"
    /\ call.logger # RootId
    /\ heap[call.logger].sinks = <<"S1", "S1">>
    /\ heap[RootId].sinks = <<"S1", "S2">>
    /\ Writes("S1") = 3
    /\ Writes("S2") = 1

\* C26: an entry its logger accepted is written to every sink of every logger
\* reached through additive loggers, whatever the stored and the effective
\* level of that logger are; the level of the emitting logger alone decides.
C26_AncestorLevelIgnored ==
    /\ (call.op = "log" /\ call.level >= getLevel(heap, call.logger)) =>
           \A l \in Reached(call.logger) :
               \A i \in 1..Len(heap[l].sinks) : WrittenTo(heap[l].sinks[i])
    /\ (call.op = "log" /\ call.level < getLevel(heap, call.logger)) =>
           written = <<>>

\* an entry at DEBUG, accepted by a logger at DEBUG, was written to the sink
\* of the root, whose level is OFF
C26_Witness ==
    /\ call.op = "log"
    /\ call.logger # RootId
    /\ call.level = DEBUG
    /\ heap[call.logger].level = DEBUG
    /\ heap[call.logger].additive
    /\ heap[RootId].level = OFF
    /\ heap[RootId].sinks = <<"S1">>
    /\ WrittenTo("S1")

\* C27: the start timestamp is captured once and stays as it is from then
\* on; when an entry is rendered the start timestamp is not later than the
\* entry's timestamp, so the milliseconds since the start that are printed
\* are not negative, whether initialize() was called before the entry was
\* created or not.
C27_WallTimeNotNegative ==
    /\ [](formatted.op = "formatMessage" =>
              /\ startTime.initialized
              /\ startTime.value <= formatted.context.timestamp
              /\ duration_cast(formatted.context.timestamp - startTime.value) >= 0)
    /\ [][startTime.initialized => startTime' = startTime]_vars
====
